---- MODULE Spec2Model ----
(***************************************************************************)
(* A model of the reading-tracker client: the library store kept by the    *)
(* Index page (a Map persisted to localStorage by two effects), the status *)
(* transition handlers of BookCard, ProgressEditDialog and ReReadLog, the  *)
(* statistics of MyLibrary, the search component and the tag registry.     *)
(*                                                                         *)
(* Dates are ISO strings in the source; they are modelled by the clock     *)
(* reading (an integer number of ticks) they were formatted from, which    *)
(* orders them the same way.  An optional property of a JS object is       *)
(* modelled as a sequence of length 0 (undefined) or 1 (the value).        *)
(***************************************************************************)
EXTENDS Integers, Sequences, FiniteSets, TLC

VARIABLES
    clock,          \* the wall clock read by new Date() / Date.now()
    pc,             \* Index: "mount" | "mountSave" | "effect" | "idle"
    libraryBooks,   \* Index state: the Map, as its insertion-ordered entries
    queued,         \* Index: the state update queued by the load effect
    localStorage,   \* the two keys of the browser storage
    consoleErrors,  \* what console.error has logged
    uncaught,       \* TRUE once an exception has escaped a handler or effect
    lastOp,         \* history: the handler whose render is pending, and on what
    query,          \* BookSearch state: the text of the search box
    selectedGenre,  \* BookSearch state: the genre badge clicked, if any
    books,          \* BookSearch state: the displayed results (book ids)
    isLoading,      \* BookSearch state
    hasSearched,    \* BookSearch state
    inflight,       \* the fetches of searchBooks that have not settled
    searches,       \* how many fetches searchBooks has issued
    searchToast,    \* the toast searchBooks showed last ("" for none)
    lastSettle,     \* history: how the last fetch settled, and what was displayed
    lastSearch,     \* history: the last call of searchBooks, and the state it met
    issued,         \* history: the requests sent, in order, and how each settled
    allTags,        \* TagManager state: the tag registry
    tagPc,          \* TagManager: "mount" | "mountSave" | "effect" | "idle"
    tagQueued,      \* TagManager: the state update queued by the load effect
    activeTab,      \* MyLibrary state: the status tab shown
    selectedTag,    \* MyLibrary state: the tag filter, if any
    lastClick,      \* history: the tag button clicked last, and the state it met
    heatmapView     \* ReadingHeatmap: its memos as last rendered, if it was

indexVars == <<clock, pc, libraryBooks, queued, lastOp>>

searchVars == <<query, selectedGenre, books, isLoading, hasSearched, inflight,
               searches, searchToast, lastSettle, lastSearch, issued>>

tagVars == <<allTags, tagPc, tagQueued>>

viewVars == <<activeTab, selectedTag, lastClick, heatmapView>>

vars == <<indexVars, searchVars, tagVars, viewVars, localStorage, consoleErrors,
          uncaught>>

---------------------------------------------------------------------------
(* Bounds *)

\* The clock stops advancing at MaxClock (later reads all return MaxClock).
MaxClock == 1

\* The largest page number typed into the progress dialog.
MaxPage == 3

\* The most reading sessions logged for one book.
MaxSessions == 2

\* The most re-read entries kept for one book.
MaxReReads == 2

\* The most searches issued in one visit.
MaxSearches == 2

\* The last calendar day a visit can fall on (days are counted from 0).
MaxDay == 1

\* The clock readings that fall on one calendar day.
TicksPerDay == 2

---------------------------------------------------------------------------
(* Optional values *)

None == <<>>
Some(v) == <<v>>
IsSome(o) == o # <<>>
Val(o) == o[1]

---------------------------------------------------------------------------
(* The catalog: the Book records a search can return *)

\* Book ids with their page count (None: the catalog gave no pageCount).
BookIds == {"b1", "b2"}

\* b1 is one page shorter than the largest page the dialog is given, so a
\* save can stop before its end, at its end and past it.
PageCountOf(id) == IF id = "b1" THEN Some(MaxPage - 1) ELSE None

Book(id) == [id |-> id, title |-> id, pageCount |-> PageCountOf(id)]

---------------------------------------------------------------------------
(* The JS Map, as the sequence of its [key, value] entries in insertion    *)
(* order.                                                                  *)

EmptyMap == <<>>

MapKeys(m) == {m[i].key : i \in 1..Len(m)}

MapHas(m, k) == k \in MapKeys(m)

MapIndex(m, k) == CHOOSE i \in 1..Len(m) : m[i].key = k

\* Map.prototype.get: the value, or undefined (None)
MapGet(m, k) == IF MapHas(m, k) THEN Some(m[MapIndex(m, k)].value) ELSE None

\* A Map.set that always appends a new entry (not what a Map does).
MapSetAppend(m, k, v) == Append(m, [key |-> k, value |-> v])

\* Map.prototype.set: replaces the value of an existing key in place,
\* appends a new key at the end.
MapSet(m, k, v) ==
    IF MapHas(m, k)
    THEN [m EXCEPT ![MapIndex(m, k)] = [key |-> k, value |-> v]]
    ELSE Append(m, [key |-> k, value |-> v])

\* Array.from(map.values())
MapValues(m) == [i \in 1..Len(m) |-> m[i].value]

---------------------------------------------------------------------------
(* ReadingStatus and the status transition handlers *)

\* The lifecycle values of the ReadingStatus type of the active revision.
StatusValues == {"reading", "finished", "did-not-finish", "re-read"}

\* { ...undefined }: an object with no property set.  (status is a plain
\* string: every handler that spreads a status sets it.)
EmptyStatus ==
    [status |-> "", dateAdded |-> None, dateStarted |-> None,
     dateCompleted |-> None, currentPage |-> None, personalRating |-> None,
     notes |-> None, readingGoal |-> None, readingSessions |-> None,
     lastUpdated |-> None, tags |-> None, reReadDates |-> None]

StatusFields == DOMAIN EmptyStatus

\* The status Index.handleAddToLibrary builds: { status: 'reading', dateAdded }
NewLibraryStatus(now) ==
    [EmptyStatus EXCEPT !.status = "reading", !.dateAdded = Some(now)]

\* A handleStatusChange that stamps dateAdded on every call.
BookCardHandleStatusChangeRestamp(readingStatus, newStatus, r1, r2, r3, r4) ==
    LET base == [readingStatus EXCEPT !.status = newStatus,
                                      !.dateAdded = Some(r1)]
        s1 == IF newStatus = "reading" /\ ~IsSome(readingStatus.dateStarted)
              THEN [base EXCEPT !.dateStarted = Some(r2)]
              ELSE base
    IN  IF newStatus \in {"finished", "did-not-finish"}
        THEN [s1 EXCEPT
                !.dateCompleted = Some(r3),
                !.dateStarted = IF ~IsSome(readingStatus.dateStarted)
                                THEN Some(r4)
                                ELSE s1.dateStarted]
        ELSE s1

\* A handleStatusChange that stamps dateStarted on every change into
\* reading.
BookCardHandleStatusChangeRestart(readingStatus, newStatus, r1, r2, r3, r4) ==
    LET base == [readingStatus EXCEPT
                    !.status = newStatus,
                    !.dateAdded = IF IsSome(readingStatus.dateAdded)
                                  THEN readingStatus.dateAdded
                                  ELSE Some(r1)]
        s1 == IF newStatus = "reading"
              THEN [base EXCEPT !.dateStarted = Some(r2)]
              ELSE base
    IN  IF newStatus \in {"finished", "did-not-finish"}
        THEN [s1 EXCEPT
                !.dateCompleted = Some(r3),
                !.dateStarted = IF ~IsSome(readingStatus.dateStarted)
                                THEN Some(r4)
                                ELSE s1.dateStarted]
        ELSE s1

\* A handleStatusChange that builds the status anew, carrying over only
\* the three dates.
BookCardHandleStatusChangeFresh(readingStatus, newStatus, r1, r2, r3, r4) ==
    LET base == [EmptyStatus EXCEPT
                    !.status = newStatus,
                    !.dateStarted = readingStatus.dateStarted,
                    !.dateCompleted = readingStatus.dateCompleted,
                    !.dateAdded = IF IsSome(readingStatus.dateAdded)
                                  THEN readingStatus.dateAdded
                                  ELSE Some(r1)]
        s1 == IF newStatus = "reading" /\ ~IsSome(readingStatus.dateStarted)
              THEN [base EXCEPT !.dateStarted = Some(r2)]
              ELSE base
    IN  IF newStatus \in {"finished", "did-not-finish"}
        THEN [s1 EXCEPT
                !.dateCompleted = Some(r3),
                !.dateStarted = IF ~IsSome(readingStatus.dateStarted)
                                THEN Some(r4)
                                ELSE s1.dateStarted]
        ELSE s1

\* BookCard.handleStatusChange: the ReadingStatus handed to onStatusChange.
\* r1..r4 are the clock readings of the four `new Date()` calls, in the
\* order of the source lines (dateAdded, dateStarted on reading,
\* dateCompleted, dateStarted backfill).
BookCardHandleStatusChange(readingStatus, newStatus, r1, r2, r3, r4) ==
    LET base == [readingStatus EXCEPT
                    !.status = newStatus,
                    !.dateAdded = IF IsSome(readingStatus.dateAdded)
                                  THEN readingStatus.dateAdded
                                  ELSE Some(r1)]
        s1 == IF newStatus = "reading" /\ ~IsSome(readingStatus.dateStarted)
              THEN [base EXCEPT !.dateStarted = Some(r2)]
              ELSE base
    IN  IF newStatus \in {"finished", "did-not-finish"}
        THEN [s1 EXCEPT
                !.dateCompleted = Some(r3),
                !.dateStarted = IF ~IsSome(readingStatus.dateStarted)
                                THEN Some(r4)
                                ELSE s1.dateStarted]
        ELSE s1

\* A trim that strips nothing.
TrimNothing(s) == s

\* String.prototype.trim on the strings the forms are given.
Trim(s) == IF s = " " THEN "" ELSE IF s = " a " THEN "a" ELSE s

\* `x || undefined` for a string x
NonEmpty(s) == IF s = "" THEN None ELSE Some(s)

\* `x || 0` for an optional number x
OrZero(o) == IF IsSome(o) /\ Val(o) # 0 THEN Val(o) ELSE 0

\* `x || []` for an optional array x
OrEmpty(o) == IF IsSome(o) THEN Val(o) ELSE <<>>

\* The local state of ProgressEditDialog when it opens on readingStatus.
DialogState(readingStatus) ==
    [currentPage |-> OrZero(readingStatus.currentPage),
     personalRating |-> OrZero(readingStatus.personalRating),
     notes |-> IF IsSome(readingStatus.notes) THEN Val(readingStatus.notes) ELSE "",
     readingGoal |-> IF IsSome(readingStatus.readingGoal)
                     THEN Val(readingStatus.readingGoal) ELSE "",
     minutesRead |-> 0]

\* A handleSave that logs the page reached as the pages read.
HandleSaveTotalPages(book, readingStatus, form, now) ==
    LET totalPages == OrZero(book.pageCount)
        edited == [readingStatus EXCEPT
                     !.currentPage = Some(form.currentPage),
                     !.personalRating = IF form.personalRating > 0
                                        THEN Some(form.personalRating) ELSE None,
                     !.notes = NonEmpty(Trim(form.notes)),
                     !.readingGoal = NonEmpty(Trim(form.readingGoal)),
                     !.lastUpdated = Some(now)]
        logged == IF form.minutesRead > 0
                  THEN [edited EXCEPT !.readingSessions =
                          Some(Append(OrEmpty(readingStatus.readingSessions),
                               [date |-> now, minutes |-> form.minutesRead,
                                pagesRead |-> form.currentPage]))]
                  ELSE edited
    IN  IF totalPages > 0 /\ form.currentPage >= totalPages
           /\ readingStatus.status # "read"
        THEN [logged EXCEPT !.status = "read",
                            !.dateCompleted = Some(now)]
        ELSE logged

\* ProgressEditDialog.handleSave: the ReadingStatus handed to onSave.
HandleSave(book, readingStatus, form, now) ==
    LET totalPages == OrZero(book.pageCount)
        edited == [readingStatus EXCEPT
                     !.currentPage = Some(form.currentPage),
                     !.personalRating = IF form.personalRating > 0
                                        THEN Some(form.personalRating) ELSE None,
                     !.notes = NonEmpty(Trim(form.notes)),
                     !.readingGoal = NonEmpty(Trim(form.readingGoal)),
                     !.lastUpdated = Some(now)]
        logged == IF form.minutesRead > 0
                  THEN [edited EXCEPT !.readingSessions =
                          Some(Append(OrEmpty(readingStatus.readingSessions),
                               [date |-> now, minutes |-> form.minutesRead,
                                pagesRead |-> form.currentPage
                                              - OrZero(readingStatus.currentPage)]))]
                  ELSE edited
    IN  IF totalPages > 0 /\ form.currentPage >= totalPages
           /\ readingStatus.status # "read"
        THEN [logged EXCEPT !.status = "read",
                            !.dateCompleted = Some(now)]
        ELSE logged

\* ProgressEditDialog.handleSave: what the readingStatus object it was
\* given holds once it has returned.  `readingStatus.readingSessions || []`
\* is the array of readingStatus itself when there is one, and push adds
\* the session to it.
HandleSaveLeaves(readingStatus, form, now) ==
    IF form.minutesRead > 0 /\ IsSome(readingStatus.readingSessions)
    THEN [readingStatus EXCEPT !.readingSessions =
            Some(Append(Val(readingStatus.readingSessions),
                 [date |-> now, minutes |-> form.minutesRead,
                  pagesRead |-> form.currentPage
                                - OrZero(readingStatus.currentPage)]))]
    ELSE readingStatus

\* The BookCard footer: which statuses show a button opening the dialog
\* ("Update Progress" while reading, "View Details" on a completed or
\* re-read book that has notes).
ShowsProgressDialog(readingStatus) ==
    \/ readingStatus.status = "reading"
    \/ /\ readingStatus.status \in {"finished", "did-not-finish", "re-read"}
       /\ IsSome(readingStatus.notes) /\ Val(readingStatus.notes) # ""

---------------------------------------------------------------------------
(* ReReadLog: the re-read entries of one book *)

\* o.f for an object o that may lack the property f
Prop(o, f) == IF f \in DOMAIN o THEN o[f] ELSE None

\* A handleAddReRead that leaves the lifecycle status as it was.
HandleAddReReadKeepStatus(status, newEntry, selectedDate, id) ==
    LET entry == [id |-> id,
                  dateCompleted |-> IF IsSome(selectedDate) THEN selectedDate
                                    ELSE Prop(newEntry, "dateCompleted"),
                  dateStarted |-> Prop(newEntry, "dateStarted"),
                  rating |-> Prop(newEntry, "rating"),
                  notes |-> Prop(newEntry, "notes"),
                  readingTime |-> Prop(newEntry, "readingTime")]
    IN  [status EXCEPT !.reReadDates = Some(Append(OrEmpty(status.reReadDates), entry))]

\* ReReadLog.handleAddReRead: the ReadingStatus handed to onStatusChange.
\* newEntry is the form's Partial<ReReadEntry>, selectedDate the calendar's
\* date, id the reading of Date.now().  (The early return on a missing
\* completion date is the guard of the action.)
HandleAddReRead(status, newEntry, selectedDate, id) ==
    LET entry == [id |-> id,
                  dateCompleted |-> IF IsSome(selectedDate) THEN selectedDate
                                    ELSE Prop(newEntry, "dateCompleted"),
                  dateStarted |-> Prop(newEntry, "dateStarted"),
                  rating |-> Prop(newEntry, "rating"),
                  notes |-> Prop(newEntry, "notes"),
                  readingTime |-> Prop(newEntry, "readingTime")]
    IN  [status EXCEPT !.status = "re-read",
                       !.reReadDates = Some(Append(OrEmpty(status.reReadDates), entry))]

\* { ...entry, ...newEntry }: every property newEntry has wins, also one
\* whose value is undefined.
Merge(entry, newEntry) ==
    [f \in DOMAIN entry |-> IF f \in DOMAIN newEntry THEN newEntry[f] ELSE entry[f]]

\* A handleUpdateEntry that merges the form into every entry of the list.
HandleUpdateEntryAll(status, editingEntry, newEntry, selectedDate) ==
    LET reReadEntries == OrEmpty(status.reReadDates)
        updated(entry) ==
            [Merge(entry, newEntry) EXCEPT
                !.dateCompleted = IF IsSome(selectedDate) THEN selectedDate
                                  ELSE Prop(newEntry, "dateCompleted")]
    IN  [status EXCEPT !.reReadDates =
            Some([i \in 1..Len(reReadEntries) |-> updated(reReadEntries[i])])]

\* ReReadLog.handleUpdateEntry, for the entry being edited.
HandleUpdateEntry(status, editingEntry, newEntry, selectedDate) ==
    LET reReadEntries == OrEmpty(status.reReadDates)
        updated(entry) ==
            IF entry.id = editingEntry.id
            THEN [Merge(entry, newEntry) EXCEPT
                    !.dateCompleted = IF IsSome(selectedDate) THEN selectedDate
                                      ELSE Prop(newEntry, "dateCompleted")]
            ELSE entry
    IN  [status EXCEPT !.reReadDates =
            Some([i \in 1..Len(reReadEntries) |-> updated(reReadEntries[i])])]

\* Array.prototype.filter keeping the entries whose id differs from entryId
RECURSIVE WithoutId(_, _)
WithoutId(entries, entryId) ==
    IF entries = <<>> THEN <<>>
    ELSE IF Head(entries).id = entryId THEN WithoutId(Tail(entries), entryId)
    ELSE <<Head(entries)>> \o WithoutId(Tail(entries), entryId)

\* ReReadLog.handleDeleteEntry: the ReadingStatus handed to onStatusChange.
HandleDeleteEntry(status, entryId) ==
    LET updatedEntries == WithoutId(OrEmpty(status.reReadDates), entryId)
    IN  [status EXCEPT !.reReadDates = Some(updatedEntries),
                       !.status = IF Len(updatedEntries) > 0 THEN "re-read"
                                  ELSE status.status]

\* new Date(entry.dateCompleted || 0).getTime()
SortKey(entry) == IF IsSome(entry.dateCompleted) THEN Val(entry.dateCompleted) ELSE 0

\* Array.prototype.sort with the comparator of the ReReadLog render: the
\* latest completion date first, entries of the same date in the order
\* they had (the sort is stable).
RECURSIVE SortedByDate(_)
SortedByDate(entries) ==
    IF entries = <<>> THEN <<>>
    ELSE LET latest == CHOOSE i \in 1..Len(entries) :
                          \A j \in 1..Len(entries) :
                             \/ SortKey(entries[j]) < SortKey(entries[i])
                             \/ SortKey(entries[j]) = SortKey(entries[i]) /\ i <= j
             rest == [k \in 1..(Len(entries) - 1) |->
                         IF k < latest THEN entries[k] ELSE entries[k + 1]]
         IN  <<entries[latest]>> \o SortedByDate(rest)

\* The render of ReReadLog with the status it is given: reReadEntries is
\* the reReadDates array of status itself, which sort orders in place.
RenderReReadLog(status) ==
    IF IsSome(status.reReadDates)
    THEN [status EXCEPT !.reReadDates = Some(SortedByDate(Val(status.reReadDates)))]
    ELSE status

---------------------------------------------------------------------------
(* Persistence: JSON.stringify(Object.fromEntries(map)) and back *)

\* What localStorage.getItem finds under a key: nothing (null), a string
\* JSON.parse rejects, or the JSON text of a value.
Missing == [kind |-> "missing", json |-> <<>>]
Malformed == [kind |-> "malformed", json |-> <<>>]
Stored(json) == [kind |-> "json", json |-> json]

\* JSON.stringify of an object: the properties whose value is undefined are
\* left out; the others are written with their value.
StringifyObject(o) ==
    LET defined == {f \in DOMAIN o : IsSome(o[f])}
    IN  [f \in defined |-> Val(o[f])]

\* JSON.parse of such an object, read back property by property: a
\* property that is not there reads as undefined.
ParseObject(json, fields) ==
    [f \in fields |-> IF f \in DOMAIN json THEN Some(json[f]) ELSE None]

\* A re-read entry: id is always written, the optional properties only
\* when defined.
StringifyEntry(entry) ==
    StringifyObject([f \in DOMAIN entry \ {"id"} |-> entry[f]]) @@ [id |-> entry.id]

ParseEntry(json) ==
    [f \in {"id", "dateStarted", "dateCompleted", "rating", "notes", "readingTime"} |->
        IF f = "id" THEN json.id
        ELSE IF f \in DOMAIN json THEN Some(json[f]) ELSE None]

StringifyStatus(status) ==
    LET plain == [f \in StatusFields \ {"status", "reReadDates"} |-> status[f]]
        entries == IF IsSome(status.reReadDates)
                   THEN [reReadDates |->
                           [i \in 1..Len(Val(status.reReadDates)) |->
                               StringifyEntry(Val(status.reReadDates)[i])]]
                   ELSE <<>>
    IN  StringifyObject(plain) @@ entries @@ [status |-> status.status]

ParseStatus(json) ==
    [f \in StatusFields |->
        IF f = "status" THEN json.status
        ELSE IF f \notin DOMAIN json THEN None
        ELSE IF f = "reReadDates"
        THEN Some([i \in 1..Len(json[f]) |-> ParseEntry(json[f][i])])
        ELSE Some(json[f])]

StringifyBook(book) == StringifyObject([id |-> Some(book.id), title |-> Some(book.title),
                                        pageCount |-> book.pageCount])

ParseBook(json) == [id |-> json.id, title |-> json.title,
                    pageCount |-> IF "pageCount" \in DOMAIN json
                                  THEN Some(json.pageCount) ELSE None]

\* Object.fromEntries(entries): one property per distinct key, in the order
\* of first appearance, holding the value of the key's last entry.
RECURSIVE ObjectFromEntries(_)
ObjectFromEntries(entries) ==
    IF entries = <<>> THEN <<>>
    ELSE LET rest == ObjectFromEntries(SubSeq(entries, 1, Len(entries) - 1))
             last == entries[Len(entries)]
         IN  MapSet(rest, last.key, last.value)

\* JSON.stringify(Object.fromEntries(libraryBooks.entries()))
Serialize(map) ==
    LET object == ObjectFromEntries(map)
    IN  [i \in 1..Len(object) |->
            [key |-> object[i].key,
             value |-> [book |-> StringifyBook(object[i].value.book),
                        status |-> StringifyStatus(object[i].value.status)]]]

\* new Map(Object.entries(JSON.parse(saved)))
Deserialize(saved) ==
    [i \in 1..Len(saved) |->
        [key |-> saved[i].key,
         value |-> [book |-> ParseBook(saved[i].value.book),
                    status |-> ParseStatus(saved[i].value.status)]]]

---------------------------------------------------------------------------
(* Index: the library store *)

\* Index.handleAddToLibrary, the updater it gives setLibraryBooks.  The
\* result is always a new Map, so the page renders again.
IndexHandleAddToLibrary(prev, book, now) ==
    [map |-> MapSet(prev, book.id, [book |-> book, status |-> NewLibraryStatus(now)]),
     rerender |-> TRUE]

\* A handleStatusChange that creates the entry it does not find.
IndexHandleStatusChangeUpsert(prev, bookId, status) ==
    [map |-> MapSet(prev, bookId, [book |-> Book(bookId), status |-> status]),
     rerender |-> TRUE]

\* Index.handleStatusChange, the updater it gives setLibraryBooks: a new Map
\* with the entry's status replaced, or prev itself (the same reference, so
\* nothing renders and no effect runs) when the id has no entry.
IndexHandleStatusChange(prev, bookId, status) ==
    LET existing == MapGet(prev, bookId)
    IN  IF IsSome(existing)
        THEN [map |-> MapSet(prev, bookId, [Val(existing) EXCEPT !.status = status]),
              rerender |-> TRUE]
        ELSE [map |-> prev, rerender |-> FALSE]

\* A load that lets the exception of JSON.parse escape.
LoadLibraryNoCatch(saved) ==
    IF saved.kind = "missing"
    THEN [update |-> None, logged |-> {}, thrown |-> FALSE]
    ELSE IF saved.kind = "malformed"
    THEN [update |-> None, logged |-> {}, thrown |-> TRUE]
    ELSE [update |-> Some(Deserialize(saved.json)), logged |-> {}, thrown |-> FALSE]

\* The load effect of Index: the state update it queues, what it logs and
\* whether an exception leaves it.
LoadLibrary(saved) ==
    IF saved.kind = "missing"
    THEN [update |-> None, logged |-> {}, thrown |-> FALSE]
    ELSE IF saved.kind = "malformed"
    THEN [update |-> None, logged |-> {"Failed to load library:"}, thrown |-> FALSE]
    ELSE [update |-> Some(Deserialize(saved.json)), logged |-> {}, thrown |-> FALSE]

\* A save effect that writes only the first entry of the Map.
SaveLibraryFirstOnly(map) ==
    Stored(Serialize(IF map = <<>> THEN <<>> ELSE <<map[1]>>))

\* The save effect of Index: what it stores under 'reading-library'.
SaveLibrary(map) == Stored(Serialize(map))

---------------------------------------------------------------------------
(* TagManager: the tag registry *)

\* A load that lets the exception of JSON.parse escape.
LoadTagsNoCatch(saved) ==
    IF saved.kind = "missing"
    THEN [update |-> None, logged |-> {}, thrown |-> FALSE]
    ELSE IF saved.kind = "malformed"
    THEN [update |-> None, logged |-> {}, thrown |-> TRUE]
    ELSE [update |-> Some(saved.json), logged |-> {}, thrown |-> FALSE]

\* The load effect of TagManager: the state update it queues, what it logs
\* and whether an exception leaves it.
LoadTags(saved) ==
    IF saved.kind = "missing"
    THEN [update |-> None, logged |-> {}, thrown |-> FALSE]
    ELSE IF saved.kind = "malformed"
    THEN [update |-> None, logged |-> {"Failed to load tags:"}, thrown |-> FALSE]
    ELSE [update |-> Some(saved.json), logged |-> {}, thrown |-> FALSE]

\* The save effect of TagManager: what it stores under 'reading-tags'.
SaveTags(tags) == Stored(tags)

---------------------------------------------------------------------------
(* BookSearch: searchBooks *)

\* The q parameter of the request: subject:<genre> for a genre search.
QueryParam(searchQuery, isGenreSearch) ==
    IF isGenreSearch THEN <<"subject", searchQuery>> ELSE <<"text", searchQuery>>

\* What the catalog answers to a request: the ids of the items, in order.
ResultsOf(q) ==
    IF q = <<"text", " a ">> THEN <<"b1">>
    ELSE IF q \in {<<"text", "b">>, <<"subject", "Fiction">>} THEN <<"b2", "b1">>
    ELSE <<>>

\* How a fetch can settle: a 2xx response with a body, a response that is
\* not ok, or a rejected promise.
Outcomes == {"ok", "notOk", "rejected"}

\* A searchBooks whose catch block leaves the displayed results alone.
SearchSettledKeep(displayed, request, outcome) ==
    IF outcome = "ok"
    THEN [books |-> ResultsOf(request.q),
          toast |-> IF Len(ResultsOf(request.q)) = 0 THEN "No Results" ELSE "",
          logged |-> {}]
    ELSE [books |-> displayed, toast |-> "Search Error", logged |-> {"Search error:"}]

\* searchBooks after its fetch has settled: the results it displays, the
\* toast it shows ("" for none) and what it logs.  (finally: isLoading is
\* set to false, in the action.)
SearchSettled(displayed, request, outcome) ==
    IF outcome = "ok"
    THEN [books |-> ResultsOf(request.q),
          toast |-> IF Len(ResultsOf(request.q)) = 0 THEN "No Results" ELSE "",
          logged |-> {}]
    ELSE [books |-> <<>>, toast |-> "Search Error", logged |-> {"Search error:"}]

---------------------------------------------------------------------------
(* MyLibrary: statistics *)

\* Array.prototype.reduce((acc, x) => acc + x, 0)
RECURSIVE Sum(_)
Sum(numbers) == IF numbers = <<>> THEN 0 ELSE Head(numbers) + Sum(Tail(numbers))

\* books.filter(b => b.status.status === status).length
CountStatus(values, status) ==
    Cardinality({i \in 1..Len(values) : values[i].status.status = status})

\* A stats memo that counts the re-read books among the finished ones.
statsWithReRead(map) ==
    LET values == MapValues(map)
        readBooks == SelectSeq(values, LAMBDA b : b.status.status \in {"finished", "re-read"})
    IN  [totalBooks |-> Len(values),
         readBooks |-> Len(readBooks),
         currentlyReading |-> CountStatus(values, "reading"),
         didNotFinish |-> CountStatus(values, "did-not-finish"),
         reRead |-> CountStatus(values, "re-read"),
         totalPages |-> Sum([i \in 1..Len(readBooks) |->
                                OrZero(readBooks[i].book.pageCount)])]

\* The stats memo of MyLibrary (the counts and the page total).
stats(map) ==
    LET values == MapValues(map)
        readBooks == SelectSeq(values, LAMBDA b : b.status.status = "finished")
    IN  [totalBooks |-> Len(values),
         readBooks |-> Len(readBooks),
         currentlyReading |-> CountStatus(values, "reading"),
         didNotFinish |-> CountStatus(values, "did-not-finish"),
         reRead |-> CountStatus(values, "re-read"),
         totalPages |-> Sum([i \in 1..Len(readBooks) |->
                                OrZero(readBooks[i].book.pageCount)])]

\* The tabs of MyLibrary.
Tabs == {"all", "reading", "finished", "did-not-finish", "re-read"}

\* `a.status.dateCompleted ? new Date(a.status.dateCompleted).getTime() : 0`
CompletionKey(b) ==
    IF IsSome(b.status.dateCompleted) THEN Val(b.status.dateCompleted) ELSE 0

\* Array.prototype.sort with the comparator of the Finished tab: the latest
\* completion first, books of the same date in the order they had.
RECURSIVE SortedByCompletion(_)
SortedByCompletion(values) ==
    IF values = <<>> THEN <<>>
    ELSE LET latest == CHOOSE i \in 1..Len(values) :
                          \A j \in 1..Len(values) :
                             \/ CompletionKey(values[j]) < CompletionKey(values[i])
                             \/ /\ CompletionKey(values[j]) = CompletionKey(values[i])
                                /\ i <= j
             rest == [k \in 1..(Len(values) - 1) |->
                         IF k < latest THEN values[k] ELSE values[k + 1]]
         IN  <<values[latest]>> \o SortedByCompletion(rest)

\* The filteredBooks memo up to its tag filter: the switch on activeTab.
TabBooks(map, tab) ==
    LET values == MapValues(map)
        WithStatus(status) == SelectSeq(values, LAMBDA b : b.status.status = status)
    IN  IF tab = "finished" THEN SortedByCompletion(WithStatus("finished"))
        ELSE IF tab \in {"reading", "did-not-finish", "re-read"} THEN WithStatus(tab)
        ELSE values

\* status.tags && status.tags.includes(tag)
HasTag(status, tag) ==
    /\ IsSome(status.tags)
    /\ \E i \in 1..Len(Val(status.tags)) : Val(status.tags)[i] = tag

\* The filteredBooks memo of MyLibrary (`if (selectedTag)`: null and the
\* empty string do not filter).
filteredBooks(map, tab, tag) ==
    IF IsSome(tag) /\ Val(tag) # ""
    THEN SelectSeq(TabBooks(map, tab), LAMBDA b : HasTag(b.status, Val(tag)))
    ELSE TabBooks(map, tab)

\* The allTags memo of MyLibrary: the tags the library's books carry (the
\* buttons show them sorted).
LibraryTags(map) ==
    {t \in {"X", "Y", ""} : \E i \in 1..Len(map) : HasTag(map[i].value.status, t)}

\* A tag button that selects its tag whatever is selected.
ToggleSelectedTagOn(selected, tag) == Some(tag)

\* The onClick of a tag button: selectedTag === tag ? null : tag
ToggleSelectedTag(selected, tag) == IF selected = Some(tag) THEN None ELSE Some(tag)

---------------------------------------------------------------------------
(* ReadingHeatmap: the activity of each calendar day *)

Min(a, b) == IF a < b THEN a ELSE b

Max(a, b) == IF a < b THEN b ELSE a

\* new Date(iso).toDateString(): the calendar day an instant falls on.
DayOf(t) == t \div TicksPerDay

\* Minutes of one session per intensity level, and the highest level.
MinutesPerLevel == 15
MaxIntensity == 4

\* The intensity of a day a book was completed on, and of a day a re-read
\* was completed on.
CompletionIntensity == 3
ReReadIntensity == 4

\* Array.prototype.includes
Includes(array, x) == \E i \in 1..Len(array) : array[i] = x

\* `activityMap.get(dateKey) || { date: dateKey, intensity: 0, ... }`
ActivityOf(activityMap, dateKey) ==
    IF MapHas(activityMap, dateKey) THEN Val(MapGet(activityMap, dateKey))
    ELSE [date |-> dateKey, intensity |-> 0, sessions |-> 0, books |-> <<>>]

\* `if (!existing.books.includes(book.title)) existing.books.push(book.title)`
WithTitle(titles, title) == IF Includes(titles, title) THEN titles ELSE Append(titles, title)

\* A forEach body that rates a day by the number of its sessions.
AddSessionCounted(activityMap, book, session) ==
    LET dateKey == DayOf(session.date)
        existing == ActivityOf(activityMap, dateKey)
    IN  MapSet(activityMap, dateKey,
               [existing EXCEPT !.sessions = @ + 1,
                                !.books = WithTitle(@, book.title),
                                !.intensity = Min(existing.sessions + 1, MaxIntensity)])

\* The body of the forEach over a book's reading sessions.
AddSession(activityMap, book, session) ==
    LET dateKey == DayOf(session.date)
        existing == ActivityOf(activityMap, dateKey)
        timeIntensity == Min(session.minutes \div MinutesPerLevel, MaxIntensity)
    IN  MapSet(activityMap, dateKey,
               [existing EXCEPT !.sessions = @ + 1,
                                !.books = WithTitle(@, book.title),
                                !.intensity = Max(@, timeIntensity)])

RECURSIVE AddSessions(_, _, _)
AddSessions(activityMap, book, sessions) ==
    IF sessions = <<>> THEN activityMap
    ELSE AddSessions(AddSession(activityMap, book, Head(sessions)), book, Tail(sessions))

\* `if (status.dateCompleted) { ... }`
AddCompletion(activityMap, book, status) ==
    IF IsSome(status.dateCompleted)
    THEN LET dateKey == DayOf(Val(status.dateCompleted))
             existing == ActivityOf(activityMap, dateKey)
         IN  MapSet(activityMap, dateKey,
                    [existing EXCEPT !.intensity = Max(@, CompletionIntensity),
                                     !.books = WithTitle(@, book.title)])
    ELSE activityMap

\* The forEach over a book's re-read entries.
RECURSIVE AddReReads(_, _, _)
AddReReads(activityMap, book, reReads) ==
    IF reReads = <<>> THEN activityMap
    ELSE LET reRead == Head(reReads)
             dateKey == DayOf(Val(reRead.dateCompleted))
             existing == ActivityOf(activityMap, dateKey)
             next == IF IsSome(reRead.dateCompleted)
                     THEN MapSet(activityMap, dateKey,
                                 [existing EXCEPT
                                     !.intensity = Max(@, ReReadIntensity),
                                     !.books = WithTitle(@, book.title)])
                     ELSE activityMap
         IN  AddReReads(next, book, Tail(reReads))

\* The forEach over the library's values.
RECURSIVE AddBooks(_, _)
AddBooks(activityMap, values) ==
    IF values = <<>> THEN activityMap
    ELSE LET book == Head(values).book
             status == Head(values).status
             withSessions == AddSessions(activityMap, book, OrEmpty(status.readingSessions))
             withCompletion == AddCompletion(withSessions, book, status)
         IN  AddBooks(AddReReads(withCompletion, book, OrEmpty(status.reReadDates)),
                      Tail(values))

\* The heatmapData memo: a Map from calendar day to DayActivity.
heatmapData(map) == AddBooks(EmptyMap, MapValues(map))

\* Array.from(heatmapData.keys()).map(...).sort((a, b) => b - a): the
\* days, latest first (the keys of a Map are distinct).
RECURSIVE LatestFirst(_)
LatestFirst(days) ==
    IF days = {} THEN <<>>
    ELSE LET latest == CHOOSE d \in days : \A e \in days : e <= d
         IN  <<latest>> \o LatestFirst(days \ {latest})

\* The loop of currentStreak from index i on.
RECURSIVE StreakFrom(_, _, _, _)
StreakFrom(sortedDates, i, streak, today) ==
    IF i > Len(sortedDates) THEN streak
    ELSE LET daysDiff == today - sortedDates[i]
         IN  IF daysDiff = streak
             THEN StreakFrom(sortedDates, i + 1, streak + 1, today)
             ELSE streak

\* The currentStreak memo, computed on the day `today`.
currentStreak(activityMap, today) ==
    StreakFrom(LatestFirst(MapKeys(activityMap)), 1, 0, today)

---------------------------------------------------------------------------
(* Inputs *)

\* The readings a later `new Date()` of the same handler can return after a
\* reading of t: the clock has advanced or it has not.
After(t) == {t, Min(t + 1, MaxClock)}

\* What the user can leave in the progress dialog before saving: any page,
\* minutes logged or not, and the three free fields left as they were or
\* all filled in.
ProgressForms(readingStatus) ==
    LET opened == DialogState(readingStatus)
        filled == [opened EXCEPT !.personalRating = 5, !.notes = "n",
                                 !.readingGoal = " "]
    IN  {[form EXCEPT !.currentPage = p, !.minutesRead = m] :
            form \in {opened, filled}, p \in 0..MaxPage, m \in {0, 20}}

\* The same dialog with fewer things typed: the first or the last page,
\* notes written or not, no minutes.
CoarseProgressForms(readingStatus) ==
    LET opened == DialogState(readingStatus)
    IN  {[opened EXCEPT !.currentPage = p, !.notes = n] :
            p \in {0, MaxPage}, n \in {opened.notes, "n"}}

\* What the user can leave in the re-read dialog opened by "Add Re-read":
\* newEntry starts as {} and gets a rating or not.
NewEntryForms == {<<>>, [rating |-> Some(5)]}

\* The dates the calendar of the re-read dialog can give (none picked, or a
\* day).
CalendarDates == {None} \cup {Some(d) : d \in {0, MaxClock}}

\* The re-read dialog opened by the edit button of entry: newEntry starts
\* as the entry and gets another rating or not.
EditForms(entry) == {entry, [entry EXCEPT !.rating = Some(3)]}

---------------------------------------------------------------------------
(* The state machine *)

\* lastOp while no handler's render is pending.  While one is, lastOp names
\* the handler (op), the book (id), what was asked (arg) and the
\* ReadingStatus the book had before (prev; None for a book not held).
\* handed is the ReadingStatus the handler gave onStatusChange / onSave,
\* after is what the object it was given holds once it has returned, and
\* form is what the dialog held when it was submitted.
NoOp == [op |-> "none", id |-> "", arg |-> "", prev |-> None,
         handed |-> None, after |-> None, form |-> None]

\* libraryBooks.get(id)?.status
PrevStatus(id) ==
    IF MapHas(libraryBooks, id) THEN Some(Val(MapGet(libraryBooks, id)).status) ELSE None

\* The record of a handler that ran on book id and left the object it was
\* given as it was.
Op(op, id, arg, handed) ==
    [op |-> op, id |-> id, arg |-> arg, prev |-> PrevStatus(id),
     handed |-> handed, after |-> PrevStatus(id), form |-> None]

InitAt(now, library, tags) ==
    /\ clock = now
    /\ pc = "mount"
    /\ libraryBooks = EmptyMap
    /\ queued = None
    /\ localStorage = [library |-> library, tags |-> tags]
    /\ consoleErrors = {}
    /\ uncaught = FALSE
    /\ lastOp = NoOp
    /\ query = ""
    /\ selectedGenre = None
    /\ books = <<>>
    /\ isLoading = FALSE
    /\ hasSearched = FALSE
    /\ inflight = {}
    /\ searches = 0
    /\ searchToast = ""
    /\ lastSettle = [outcome |-> "", before |-> <<>>, toast |-> ""]
    /\ lastSearch = None
    /\ issued = <<>>
    /\ allTags = <<>>
    /\ tagPc = "mount"
    /\ tagQueued = None
    /\ activeTab = "all"
    /\ selectedTag = None
    /\ lastClick = None
    /\ heatmapView = None

\* A visit at time 0.
InitWith(library, tags) == InitAt(0, library, tags)

\* A library an earlier session stored.
StoredLibraries ==
    {EmptyMap,
     <<[key |-> "b1", value |-> [book |-> Book("b1"), status |-> NewLibraryStatus(0)]]>>}

\* A ReadingStatus the handlers produce, with the tags an earlier session
\* gave it.
Tagged(status, tags) == [status EXCEPT !.tags = tags]

\* Libraries of two books an earlier session stored: b1 being read or
\* finished, b2 finished later or re-read, each with no tags property, one
\* tag or two.
TaggedLibraries ==
    LET finished(t) == BookCardHandleStatusChange(NewLibraryStatus(0), "finished", t, t, t, t)
        reread == [NewLibraryStatus(0) EXCEPT !.status = "re-read"]
        TagLists == {None, Some(<<"X">>), Some(<<"Y", "X">>)}
    IN  {<<[key |-> "b1", value |-> [book |-> Book("b1"), status |-> Tagged(s1, t1)]],
           [key |-> "b2", value |-> [book |-> Book("b2"), status |-> Tagged(s2, t2)]]>> :
            s1 \in {NewLibraryStatus(0), finished(0)},
            s2 \in {finished(MaxClock), reread},
            t1 \in TagLists, t2 \in TagLists}

\* A visit that finds one of them.
InitTagged == \E m \in TaggedLibraries : InitWith(SaveLibrary(m), Missing)

\* Libraries of one book an earlier session stored: b1 as it was added, or
\* with every optional field of its ReadingStatus set, in any lifecycle
\* state.
CarriedLibraries ==
    LET rich == [NewLibraryStatus(0) EXCEPT
                    !.dateStarted = Some(0), !.dateCompleted = Some(0),
                    !.currentPage = Some(1), !.personalRating = Some(5),
                    !.notes = Some("n"), !.readingGoal = Some("g"),
                    !.readingSessions = Some(<<[date |-> 0, minutes |-> 20,
                                                pagesRead |-> 1]>>),
                    !.lastUpdated = Some(0), !.tags = Some(<<"X">>),
                    !.reReadDates = Some(<<[id |-> 0, dateCompleted |-> Some(0),
                                            dateStarted |-> None, rating |-> Some(5),
                                            notes |-> None, readingTime |-> None]>>)]
    IN  {<<[key |-> "b1", value |-> [book |-> Book("b1"),
                                     status |-> [s EXCEPT !.status = v]]]>> :
            s \in {NewLibraryStatus(0), rich}, v \in StatusValues}

\* A visit that finds one of them.
InitCarried == \E m \in CarriedLibraries : InitWith(SaveLibrary(m), Missing)

\* The clock readings of the days 0..MaxDay.
Instants == 0..(TicksPerDay * (MaxDay + 1) - 1)

\* Libraries of two books an earlier session stored, with sessions on one
\* day or two, a completion date, and re-reads completed on days picked in
\* the calendar, one of them after the last day.  b2 has its own title or
\* the title of b1.
HeatmapLibraries ==
    LET noon == TicksPerDay - 1
        Session(t, m) == [date |-> t, minutes |-> m, pagesRead |-> 1]
        ReRead(d) == [id |-> 0, dateCompleted |-> d, dateStarted |-> None,
                      rating |-> None, notes |-> None, readingTime |-> None]
        later == TicksPerDay * MaxDay
        future == TicksPerDay * (MaxDay + 1)
        Sessions1 == {None, Some(<<Session(0, 10)>>),
                      Some(<<Session(0, 10), Session(noon, 20)>>),
                      Some(<<Session(later, 75)>>),
                      Some(<<Session(0, 20), Session(later, 10)>>)}
        Sessions2 == {None, Some(<<Session(noon, 20)>>), Some(<<Session(later, 30)>>)}
        Completed1 == {None, Some(0), Some(later)}
        ReReads2 == {None, Some(<<ReRead(None)>>), Some(<<ReRead(Some(later))>>),
                     Some(<<ReRead(Some(future))>>),
                     Some(<<ReRead(Some(0)), ReRead(Some(later))>>)}
    IN  {<<[key |-> "b1",
            value |-> [book |-> Book("b1"),
                       status |-> [NewLibraryStatus(0) EXCEPT
                                     !.readingSessions = s1, !.dateCompleted = c1]]],
           [key |-> "b2",
            value |-> [book |-> [Book("b2") EXCEPT !.title = title2],
                       status |-> [NewLibraryStatus(0) EXCEPT
                                     !.readingSessions = s2, !.reReadDates = r2]]]>> :
            s1 \in Sessions1, s2 \in Sessions2, c1 \in Completed1, r2 \in ReReads2,
            title2 \in {"b1", "b2"}}

\* The clock readings the handlers have stamped on a library.
Stamps(map) ==
    UNION {{Val(map[i].value.status.dateAdded)}
           \cup {OrEmpty(map[i].value.status.readingSessions)[j].date :
                   j \in 1..Len(OrEmpty(map[i].value.status.readingSessions))}
           \cup {Val(c) : c \in {map[i].value.status.dateCompleted} \ {None}} :
           i \in 1..Len(map)}

\* A visit that finds one of them, no earlier than its stamps.
InitHeatmap ==
    \E m \in HeatmapLibraries, now \in Instants :
        /\ \A t \in Stamps(m) : t <= now
        /\ InitAt(now, SaveLibrary(m), Missing)

\* The first visit: nothing is stored.
Init == InitWith(Missing, Missing)

\* Any visit: the key is missing, unreadable or holds a stored library.
InitStored ==
    \E library \in {Missing, Malformed} \cup {SaveLibrary(m) : m \in StoredLibraries} :
        InitWith(library, Missing)

\* The tag registries an earlier session stored.
StoredTags == {<<>>, <<"t1">>}

\* Any visit, for the tag registry too.
InitStoredBoth ==
    \E library \in {Missing, Malformed} \cup {SaveLibrary(m) : m \in StoredLibraries},
       tags \in {Missing, Malformed} \cup {SaveTags(t) : t \in StoredTags} :
        InitWith(library, tags)

\* Index mounts: the load effect runs first.
LoadEffect ==
    /\ pc = "mount"
    /\ LET loaded == LoadLibrary(localStorage.library)
       IN  /\ queued' = loaded.update
           /\ consoleErrors' = consoleErrors \cup loaded.logged
           /\ uncaught' = loaded.thrown
           /\ pc' = IF loaded.thrown THEN "crashed" ELSE "mountSave"
    /\ UNCHANGED <<clock, libraryBooks, localStorage, lastOp>>

\* ... then the save effect of the same render, which still sees the empty
\* Map; the queued update, if any, renders next.
MountSaveEffect ==
    /\ pc = "mountSave"
    /\ localStorage' = [localStorage EXCEPT !.library = SaveLibrary(libraryBooks)]
    /\ IF IsSome(queued)
       THEN libraryBooks' = Val(queued) /\ pc' = "effect"
       ELSE libraryBooks' = libraryBooks /\ pc' = "idle"
    /\ queued' = None
    /\ UNCHANGED <<clock, consoleErrors, uncaught, lastOp>>

\* The save effect after a render with a new libraryBooks.
SaveEffect ==
    /\ pc = "effect"
    /\ localStorage' = [localStorage EXCEPT !.library = SaveLibrary(libraryBooks)]
    /\ pc' = "idle"
    /\ lastOp' = NoOp
    /\ UNCHANGED <<clock, libraryBooks, queued, consoleErrors, uncaught>>

\* A handler returned the state it was given: nothing renders.
NoRender ==
    /\ pc = "handled"
    /\ pc' = "idle"
    /\ lastOp' = NoOp
    /\ UNCHANGED <<clock, libraryBooks, queued, localStorage, consoleErrors, uncaught>>

\* Time passes between two user events.
Tick ==
    /\ pc = "idle"
    /\ clock < MaxClock
    /\ clock' = clock + 1
    /\ UNCHANGED <<pc, libraryBooks, queued, localStorage, consoleErrors, uncaught, lastOp>>

\* setLibraryBooks(updater) from a handler, and the render it causes.
Commit(result, op) ==
    /\ libraryBooks' = result.map
    /\ pc' = IF result.rerender THEN "effect" ELSE "handled"
    /\ lastOp' = op
    /\ UNCHANGED <<queued, localStorage, consoleErrors, uncaught>>

\* "Add to Library" on a search result: BookCard.handleAddToLibrary calls
\* Index.handleAddToLibrary, then its own handleStatusChange('reading'),
\* whose onStatusChange is the empty function of the search context.
AddToLibrary(id) ==
    /\ pc = "idle"
    /\ Commit(IndexHandleAddToLibrary(libraryBooks, Book(id), clock),
              Op("add", id, "", None))
    /\ UNCHANGED clock

\* BookCard.handleStatusChange on a library entry.
StatusChange(id, newStatus) ==
    /\ pc = "idle"
    /\ MapHas(libraryBooks, id)
    /\ LET readingStatus == Val(MapGet(libraryBooks, id)).status
       IN  \E r4 \in After(clock) :
             /\ LET updatedStatus ==
                        BookCardHandleStatusChange(readingStatus, newStatus,
                                                   clock, clock, clock, r4)
                IN  Commit(IndexHandleStatusChange(libraryBooks, id, updatedStatus),
                           Op("statusChange", id, newStatus, Some(updatedStatus)))
             /\ clock' = IF /\ newStatus \in {"finished", "did-not-finish"}
                            /\ ~IsSome(readingStatus.dateStarted)
                         THEN r4 ELSE clock

\* Index.handleStatusChange for an id the library does not hold.
UpdateAbsent(id) ==
    /\ pc = "idle"
    /\ ~MapHas(libraryBooks, id)
    /\ Commit(IndexHandleStatusChange(libraryBooks, id, NewLibraryStatus(clock)),
              Op("updateAbsent", id, "", Some(NewLibraryStatus(clock))))
    /\ UNCHANGED clock

\* "Save Progress" in the dialog of a library entry, left as one of
\* ProgressForms(status), or of CoarseProgressForms(status) when coarse.
ProgressSave(id, coarse) ==
    /\ pc = "idle"
    /\ MapHas(libraryBooks, id)
    /\ LET entry == Val(MapGet(libraryBooks, id))
       IN  /\ ShowsProgressDialog(entry.status)
           /\ \E form \in (IF coarse THEN CoarseProgressForms(entry.status)
                                    ELSE ProgressForms(entry.status)) :
                /\ form.minutesRead > 0 =>
                      Len(OrEmpty(entry.status.readingSessions)) < MaxSessions
                /\ LET updatedStatus == HandleSave(entry.book, entry.status, form, clock)
                       arg == IF form.currentPage >= OrZero(entry.book.pageCount)
                                 /\ OrZero(entry.book.pageCount) > 0
                              THEN "end" ELSE "mid"
                   IN  Commit(IndexHandleStatusChange(libraryBooks, id, updatedStatus),
                              [Op("progressSave", id, arg, Some(updatedStatus)) EXCEPT
                                  !.after = Some(HandleSaveLeaves(entry.status, form, clock)),
                                  !.form = Some(form)])
    /\ UNCHANGED clock

\* "Add Re-read" in the re-read dialog of a library entry.
AddReRead(id, newEntries, dates) ==
    /\ pc = "idle"
    /\ MapHas(libraryBooks, id)
    /\ LET status == Val(MapGet(libraryBooks, id)).status
       IN  /\ Len(OrEmpty(status.reReadDates)) < MaxReReads
           /\ \E newEntry \in newEntries, selectedDate \in dates :
                IF ~IsSome(Prop(newEntry, "dateCompleted")) /\ ~IsSome(selectedDate)
                THEN /\ pc' = "handled"
                     /\ lastOp' = [Op("addReRead", id, "rejected", None) EXCEPT
                                      !.form = Some([newEntry |-> newEntry,
                                                     selectedDate |-> selectedDate])]
                     /\ UNCHANGED <<libraryBooks, queued, localStorage,
                                    consoleErrors, uncaught>>
                ELSE LET updatedStatus ==
                             HandleAddReRead(status, newEntry, selectedDate, clock)
                     IN  Commit(IndexHandleStatusChange(libraryBooks, id,
                                    RenderReReadLog(updatedStatus)),
                                [Op("addReRead", id, "added", Some(updatedStatus)) EXCEPT
                                    !.form = Some([newEntry |-> newEntry,
                                                   selectedDate |-> selectedDate])])
    /\ UNCHANGED clock

\* "Update Re-read" in the re-read dialog opened on one entry (the button
\* is disabled while no date is selected).
UpdateEntry(id, dates) ==
    /\ pc = "idle"
    /\ MapHas(libraryBooks, id)
    /\ LET status == Val(MapGet(libraryBooks, id)).status
           reReadEntries == OrEmpty(status.reReadDates)
       IN  \E i \in 1..Len(reReadEntries) :
           \E newEntry \in EditForms(reReadEntries[i]),
              selectedDate \in (dates \cup {reReadEntries[i].dateCompleted}) \ {None} :
             LET updatedStatus ==
                     HandleUpdateEntry(status, reReadEntries[i], newEntry, selectedDate)
             IN  Commit(IndexHandleStatusChange(libraryBooks, id,
                            RenderReReadLog(updatedStatus)),
                        [Op("updateEntry", id, reReadEntries[i].id, Some(updatedStatus))
                            EXCEPT !.form = Some([index |-> i, newEntry |-> newEntry,
                                                  selectedDate |-> selectedDate])])
    /\ UNCHANGED clock

\* The delete button of one re-read entry.
DeleteEntry(id) ==
    /\ pc = "idle"
    /\ MapHas(libraryBooks, id)
    /\ LET status == Val(MapGet(libraryBooks, id)).status
           reReadEntries == OrEmpty(status.reReadDates)
       IN  \E i \in 1..Len(reReadEntries) :
             LET updatedStatus == HandleDeleteEntry(status, reReadEntries[i].id)
             IN  Commit(IndexHandleStatusChange(libraryBooks, id,
                            RenderReReadLog(updatedStatus)),
                        [Op("deleteEntry", id,
                            IF Len(reReadEntries) = 1 THEN "only" ELSE "several",
                            Some(updatedStatus)) EXCEPT
                            !.form = Some([entryId |-> reReadEntries[i].id])])
    /\ UNCHANGED clock

\* A tab of MyLibrary is chosen.
SetActiveTab(tab) ==
    /\ activeTab' = tab
    /\ lastClick' = None
    /\ UNCHANGED <<selectedTag, heatmapView>>

\* A tag button of MyLibrary is clicked (there is one per tag of the
\* library).
ToggleTag(tag) ==
    /\ tag \in LibraryTags(libraryBooks)
    /\ selectedTag' = ToggleSelectedTag(selectedTag, tag)
    /\ lastClick' = Some([tag |-> tag, selected |-> selectedTag,
                          library |-> libraryBooks, stored |-> localStorage])
    /\ UNCHANGED <<activeTab, heatmapView>>

\* The "Clear" button next to the tag buttons, shown while a tag is selected.
ClearTag ==
    /\ IsSome(selectedTag) /\ Val(selectedTag) # ""
    /\ selectedTag' = None
    /\ lastClick' = None
    /\ UNCHANGED <<activeTab, heatmapView>>

\* TagManager.handleToggleTag: the tag list handed to onTagsChange, the
\* book's tags without the tag when it had it, with it appended when not.
HandleToggleTag(selectedTags, tag) ==
    IF Includes(selectedTags, tag)
    THEN SelectSeq(selectedTags, LAMBDA t : t # tag)
    ELSE Append(selectedTags, tag)

\* onTagsChange as the owner of a book's TagManager wires it: the tags
\* are the tags of the book's ReadingStatus.
OnTagsChange(status, tags) == [status EXCEPT !.tags = Some(tags)]

\* A tag badge of the TagManager of a library entry is clicked.
ToggleBookTag(id, tag) ==
    /\ pc = "idle"
    /\ MapHas(libraryBooks, id)
    /\ LET status == Val(MapGet(libraryBooks, id)).status
           updatedStatus == OnTagsChange(status, HandleToggleTag(OrEmpty(status.tags), tag))
       IN  Commit(IndexHandleStatusChange(libraryBooks, id, updatedStatus),
                  Op("toggleTag", id, tag, Some(updatedStatus)))
    /\ UNCHANGED clock

\* ReadingHeatmap renders with the library of Index: its memos are
\* computed, the streak from the day the clock reads.
RenderHeatmap ==
    /\ pc = "idle"
    /\ LET data == heatmapData(libraryBooks)
           today == DayOf(clock)
       IN  heatmapView' = Some([data |-> data, today |-> today,
                                streak |-> currentStreak(data, today)])
    /\ UNCHANGED <<activeTab, selectedTag, lastClick>>

\* TagManager mounts: its load effect runs first.
TagLoadEffect ==
    /\ tagPc = "mount"
    /\ LET loaded == LoadTags(localStorage.tags)
       IN  /\ tagQueued' = loaded.update
           /\ consoleErrors' = consoleErrors \cup loaded.logged
           /\ uncaught' = (uncaught \/ loaded.thrown)
           /\ tagPc' = IF loaded.thrown THEN "crashed" ELSE "mountSave"
    /\ UNCHANGED <<allTags, localStorage>>

\* ... then the save effect of the same render, which still sees the empty
\* list; the queued update, if any, renders next.
TagMountSaveEffect ==
    /\ tagPc = "mountSave"
    /\ localStorage' = [localStorage EXCEPT !.tags = SaveTags(allTags)]
    /\ IF IsSome(tagQueued)
       THEN allTags' = Val(tagQueued) /\ tagPc' = "effect"
       ELSE allTags' = allTags /\ tagPc' = "idle"
    /\ tagQueued' = None
    /\ UNCHANGED <<consoleErrors, uncaught>>

\* The save effect of TagManager after a render with a new allTags.
TagSaveEffect ==
    /\ tagPc = "effect"
    /\ localStorage' = [localStorage EXCEPT !.tags = SaveTags(allTags)]
    /\ tagPc' = "idle"
    /\ UNCHANGED <<allTags, tagQueued, consoleErrors, uncaught>>

\* searchBooks up to its fetch: an empty query is refused with a toast,
\* any other sets the flags and sends the request.
SearchBooks(searchQuery, isGenreSearch) ==
    /\ searches < MaxSearches
    /\ IF Trim(searchQuery) = ""
       THEN /\ searchToast' = "Search Required"
            /\ UNCHANGED <<books, isLoading, hasSearched, inflight, searches, issued>>
       ELSE /\ isLoading' = TRUE
            /\ hasSearched' = TRUE
            /\ searches' = searches + 1
            /\ inflight' = inflight \cup
                   {[n |-> searches + 1, q |-> QueryParam(searchQuery, isGenreSearch)]}
            /\ issued' = Append(issued, [q |-> QueryParam(searchQuery, isGenreSearch),
                                         overlaps |-> inflight # {},
                                         outcome |-> ""])
            /\ UNCHANGED <<books, searchToast>>
    /\ lastSearch' = Some([searchQuery |-> searchQuery, books |-> books,
                           isLoading |-> isLoading, hasSearched |-> hasSearched,
                           inflight |-> inflight, issued |-> searches' # searches])
    /\ UNCHANGED <<lastSettle, localStorage, consoleErrors, uncaught>>

\* The user types into the search box.
SetQuery(text) ==
    /\ query' = text
    /\ UNCHANGED <<selectedGenre, books, isLoading, hasSearched, inflight, searches,
                   searchToast, lastSettle, lastSearch, issued, localStorage,
                   consoleErrors, uncaught>>

\* BookSearch.handleSearch: the form is submitted.
HandleSearch ==
    /\ selectedGenre' = None
    /\ SearchBooks(query, FALSE)
    /\ UNCHANGED query

\* BookSearch.handleGenreClick: a genre badge is clicked.
HandleGenreClick(genre) ==
    /\ selectedGenre' = Some(genre)
    /\ query' = ""
    /\ SearchBooks(genre, TRUE)

\* searchBooks after its fetch has settled, for one request in flight.
SearchSettles(request, outcome) ==
    /\ request \in inflight
    /\ inflight' = inflight \ {request}
    /\ LET settled == SearchSettled(books, request, outcome)
       IN  /\ books' = settled.books
           /\ searchToast' = IF settled.toast = "" THEN searchToast ELSE settled.toast
           /\ consoleErrors' = consoleErrors \cup settled.logged
           /\ lastSettle' = [outcome |-> outcome, before |-> books,
                             toast |-> settled.toast]
    /\ isLoading' = FALSE
    /\ lastSearch' = None
    /\ issued' = [issued EXCEPT ![request.n].outcome = outcome]
    /\ UNCHANGED <<query, selectedGenre, hasSearched, searches, localStorage, uncaught>>

\* What React does on its own for Index: the mount effects, the save
\* effect, and the passing of time.
Housekeeping ==
    \/ LoadEffect
    \/ MountSaveEffect
    \/ SaveEffect
    \/ Tick

\* The life of one library entry (b1, whose page count is known) under every
\* handler, with the coarse forms.
Next ==
    /\ UNCHANGED <<searchVars, tagVars, viewVars>>
    /\ \/ Housekeeping
       \/ NoRender
       \/ AddToLibrary("b1")
       \/ \E newStatus \in StatusValues : StatusChange("b1", newStatus)
       \/ ProgressSave("b1", TRUE)
       \/ AddReRead("b1", {<<>>}, {None, Some(MaxClock)})
       \/ UpdateEntry("b1", {Some(MaxClock)})
       \/ DeleteEntry("b1")

Spec == Init /\ [][Next]_vars

\* One entry under status changes and progress saves, with every form.
NextProgress ==
    /\ UNCHANGED <<searchVars, tagVars, viewVars>>
    /\ \/ Housekeeping
       \/ AddToLibrary("b1")
       \/ \E newStatus \in StatusValues : StatusChange("b1", newStatus)
       \/ ProgressSave("b1", FALSE)

SpecProgress == Init /\ [][NextProgress]_vars

\* One entry under progress saves alone, with every form.
NextSessions ==
    /\ UNCHANGED <<searchVars, tagVars, viewVars>>
    /\ \/ Housekeeping
       \/ AddToLibrary("b1")
       \/ ProgressSave("b1", FALSE)

SpecSessions == Init /\ [][NextSessions]_vars

\* One entry under status changes and the re-read log, with every form.
NextReRead ==
    /\ UNCHANGED <<searchVars, tagVars, viewVars>>
    /\ \/ Housekeeping
       \/ NoRender
       \/ AddToLibrary("b1")
       \/ \E newStatus \in StatusValues : StatusChange("b1", newStatus)
       \/ AddReRead("b1", NewEntryForms, CalendarDates)
       \/ UpdateEntry("b1", CalendarDates)
       \/ DeleteEntry("b1")

SpecReRead == Init /\ [][NextReRead]_vars

\* The same, with edits that keep the entry's date.
NextReReadKeptDates ==
    /\ UNCHANGED <<searchVars, tagVars, viewVars>>
    /\ \/ Housekeeping
       \/ NoRender
       \/ AddToLibrary("b1")
       \/ \E newStatus \in StatusValues : StatusChange("b1", newStatus)
       \/ AddReRead("b1", NewEntryForms, CalendarDates)
       \/ UpdateEntry("b1", {})
       \/ DeleteEntry("b1")

SpecReReadKeptDates == Init /\ [][NextReReadKeptDates]_vars

\* One entry under re-read adds (always with a date picked) and edits.
NextReReadEdit ==
    /\ UNCHANGED <<searchVars, tagVars, viewVars>>
    /\ \/ Housekeeping
       \/ AddToLibrary("b1")
       \/ AddReRead("b1", NewEntryForms, CalendarDates \ {None})
       \/ UpdateEntry("b1", CalendarDates)

SpecReReadEdit == Init /\ [][NextReReadEdit]_vars

\* One stored entry under status changes alone.
NextStatusChange ==
    /\ UNCHANGED <<searchVars, tagVars, viewVars>>
    /\ \/ Housekeeping
       \/ \E newStatus \in StatusValues : StatusChange("b1", newStatus)

SpecStatusChange == InitCarried /\ [][NextStatusChange]_vars

\* One stored entry under status changes, progress saves and re-read adds
\* and deletes (an edit leaves every field but the re-read list alone).
NextStats ==
    /\ UNCHANGED <<searchVars, tagVars, viewVars>>
    /\ \/ Housekeeping
       \/ \E newStatus \in StatusValues : StatusChange("b1", newStatus)
       \/ ProgressSave("b1", TRUE)
       \/ AddReRead("b1", {<<>>}, {Some(0)})
       \/ DeleteEntry("b1")

SpecStats == InitCarried /\ [][NextStats]_vars

\* The store: any stored library at start, every book of the catalog added
\* and updated.
NextStore ==
    /\ UNCHANGED <<searchVars, tagVars, viewVars>>
    /\ \/ Housekeeping
       \/ NoRender
       \/ \E id \in BookIds : AddToLibrary(id)
       \/ \E id \in BookIds, newStatus \in StatusValues : StatusChange(id, newStatus)
       \/ \E id \in BookIds : UpdateAbsent(id)

SpecStore == InitStored /\ [][NextStore]_vars

\* Start-up: Index and TagManager mount over any stored values, then books
\* are added.
NextStartup ==
    \/ /\ UNCHANGED <<searchVars, tagVars, viewVars>>
       /\ \/ Housekeeping
          \/ \E id \in BookIds : AddToLibrary(id)
    \/ /\ UNCHANGED <<searchVars, indexVars, viewVars>>
       /\ \/ TagLoadEffect
          \/ TagMountSaveEffect
          \/ TagSaveEffect

SpecStartup == InitStoredBoth /\ [][NextStartup]_vars

\* The library view over a stored library: tabs and tag buttons.
NextLibraryView ==
    \/ /\ UNCHANGED <<searchVars, tagVars, viewVars>>
       /\ \/ LoadEffect
          \/ MountSaveEffect
          \/ SaveEffect
    \/ /\ UNCHANGED <<indexVars, searchVars, tagVars, localStorage, consoleErrors,
                      uncaught>>
       /\ pc = "idle"
       /\ \/ \E tab \in Tabs : SetActiveTab(tab)
          \/ \E tag \in {"X", "Y"} : ToggleTag(tag)
          \/ ClearTag

SpecLibraryView == InitTagged /\ [][NextLibraryView]_vars

\* The library view while tags are put on books and taken off them.
NextTagFilter ==
    \/ /\ UNCHANGED <<searchVars, tagVars, viewVars>>
       /\ \/ LoadEffect
          \/ MountSaveEffect
          \/ SaveEffect
          \/ \E id \in BookIds : ToggleBookTag(id, "X")
    \/ /\ UNCHANGED <<indexVars, searchVars, tagVars, localStorage, consoleErrors,
                      uncaught>>
       /\ pc = "idle"
       /\ \/ \E tab \in Tabs : SetActiveTab(tab)
          \/ \E tag \in {"X", "Y"} : ToggleTag(tag)
          \/ ClearTag

SpecTagFilter == InitTagged /\ [][NextTagFilter]_vars

\* The heatmap over a stored library.
NextHeatmap ==
    \/ /\ UNCHANGED <<searchVars, tagVars, viewVars>>
       /\ \/ LoadEffect
          \/ MountSaveEffect
          \/ SaveEffect
    \/ /\ UNCHANGED <<indexVars, searchVars, tagVars, localStorage, consoleErrors,
                      uncaught>>
       /\ RenderHeatmap

SpecHeatmap == InitHeatmap /\ [][NextHeatmap]_vars

\* The search box as BookSearch renders it: queries typed (some blank) and
\* fetches settling.  The input and the submit button are disabled while
\* isLoading (the Enter key in the input reaches handleSearch with any
\* query, blank included), and the genre badges are rendered only while
\* !hasSearched.
NextSearch ==
    /\ UNCHANGED <<indexVars, tagVars, viewVars>>
    /\ \/ \E text \in {"", " ", " a ", "b", "zzz"} : SetQuery(text)
       \/ ~isLoading /\ HandleSearch
       \/ ~hasSearched /\ HandleGenreClick("Fiction")
       \/ \E request \in inflight, outcome \in Outcomes : SearchSettles(request, outcome)

SpecSearch == Init /\ [][NextSearch]_vars

\* searchBooks entered whatever the flags are, as handleSearch and
\* handleGenreClick enter it: fetches overlap and settle in any order.
NextSearchOverlap ==
    /\ UNCHANGED <<indexVars, tagVars, viewVars>>
    /\ \/ \E text \in {" a ", "b"} : SetQuery(text)
       \/ HandleSearch
       \/ HandleGenreClick("Fiction")
       \/ \E request \in inflight, outcome \in Outcomes : SearchSettles(request, outcome)

SpecSearchOverlap == Init /\ [][NextSearchOverlap]_vars

---------------------------------------------------------------------------
(* Properties *)

\* The ReadingStatus the library holds for id.
StatusOf(id) == Val(MapGet(libraryBooks, id)).status

\* A handler has just run on a library entry and its render is pending.
Acted(op) == pc = "effect" /\ lastOp.op = op /\ IsSome(lastOp.prev)

\* The lifecycle values MyLibrary counts as completed (stats.readBooks and
\* the Finished tab).
CompletedStates == {"finished"}

\* C1: deleting the only re-read entry of a book leaves its re-read list
\* empty and its lifecycle status different from re-read.
C1_DeleteOnlyReverts ==
    (Acted("deleteEntry") /\ lastOp.arg = "only") =>
        /\ OrEmpty(StatusOf(lastOp.id).reReadDates) = <<>>
        /\ StatusOf(lastOp.id).status # "re-read"

\* C2: a progress save that reaches the last page of a book not yet
\* completed leaves it in a completed lifecycle state, completed at the
\* time of the save.
C2_AutoComplete ==
    (/\ Acted("progressSave") /\ lastOp.arg = "end"
     /\ Val(lastOp.prev).status \notin CompletedStates) =>
        /\ StatusOf(lastOp.id).status \in CompletedStates
        /\ StatusOf(lastOp.id).dateCompleted = Some(clock)

\* The handlers that change the status of an entry the library holds.
StatusOps == {"statusChange", "progressSave", "addReRead", "updateEntry", "deleteEntry"}

\* C3: a status change, a progress save and a re-read add, edit or delete
\* leave the entry's dateAdded as it was.
C3_DateAddedKept ==
    (pc = "effect" /\ lastOp.op \in StatusOps) =>
        /\ IsSome(StatusOf(lastOp.id).dateAdded)
        /\ StatusOf(lastOp.id).dateAdded = Val(lastOp.prev).dateAdded

\* C3 witness: a status change has run on an entry added at an earlier time.
C3_Witness ==
    /\ Acted("statusChange")
    /\ Val(Val(lastOp.prev).dateAdded) < clock

\* C4: a change into finished or did-not-finish on an entry never started
\* sets both dates, dateStarted no later than dateCompleted.
C4_StartedBeforeCompleted ==
    (/\ Acted("statusChange") /\ lastOp.arg \in {"finished", "did-not-finish"}
     /\ ~IsSome(Val(lastOp.prev).dateStarted)) =>
        /\ IsSome(StatusOf(lastOp.id).dateStarted)
        /\ IsSome(StatusOf(lastOp.id).dateCompleted)
        /\ Val(StatusOf(lastOp.id).dateStarted) <= Val(StatusOf(lastOp.id).dateCompleted)

\* C5: once dateStarted is set, a change into reading leaves it as it was,
\* and so does every other handler that can run in between.
C5_DateStartedKept ==
    (/\ pc = "effect" /\ lastOp.op \in StatusOps
     /\ IsSome(Val(lastOp.prev).dateStarted)) =>
        StatusOf(lastOp.id).dateStarted = Val(lastOp.prev).dateStarted

\* C5 witness: a change into reading has run on an entry started at an
\* earlier time.
C5_Witness ==
    /\ Acted("statusChange") /\ lastOp.arg = "reading"
    /\ IsSome(Val(lastOp.prev).dateStarted)
    /\ Val(Val(lastOp.prev).dateStarted) < clock

\* C6: a status update for an id without an entry changes neither the
\* library nor the storage, raises nothing and leaves no save pending.
C6_UpdateAbsentNoOp ==
    [][lastOp'.op = "updateAbsent" =>
          /\ libraryBooks' = libraryBooks
          /\ ~MapHas(libraryBooks', lastOp'.id)
          /\ localStorage' = localStorage
          /\ uncaught' = uncaught
          /\ pc' = "handled"]_vars

\* C6 witness: such an update has run on a library that holds another book.
C6_Witness ==
    /\ pc = "handled" /\ lastOp.op = "updateAbsent"
    /\ Len(libraryBooks) > 0

\* C7: totalBooks is the number of distinct ids of the library, and no id
\* has two entries.
C7_TotalBooksDistinct ==
    /\ stats(libraryBooks).totalBooks = Cardinality(MapKeys(libraryBooks))
    /\ \A i, j \in 1..Len(libraryBooks) :
          libraryBooks[i].key = libraryBooks[j].key => i = j

\* C7 witness: a book the library already held has been added again, next
\* to another book.
C7_Witness ==
    /\ Acted("add")
    /\ Len(libraryBooks) = 2

SearchFailed == lastSettle.outcome \in {"notOk", "rejected"}

C9_MalformedLoadsEmpty ==
    [][/\ (pc = "mount" /\ pc' # pc /\ localStorage.library = Malformed) =>
             (~uncaught' /\ pc' = "mountSave" /\ queued' = None
              /\ libraryBooks' = EmptyMap)
       /\ (pc = "mountSave" /\ pc' # pc /\ queued = None) =>
             (pc' = "idle" /\ libraryBooks' = EmptyMap)
       /\ (tagPc = "mount" /\ tagPc' # tagPc /\ localStorage.tags = Malformed) =>
             (~uncaught' /\ tagPc' = "mountSave" /\ tagQueued' = None
              /\ allTags' = <<>>)
       /\ (tagPc = "mountSave" /\ tagPc' # tagPc /\ tagQueued = None) =>
             (tagPc' = "idle" /\ allTags' = <<>>)]_vars

\* C9 witness: both keys were malformed and both components have started.
C9_Witness ==
    /\ consoleErrors = {"Failed to load library:", "Failed to load tags:"}
    /\ pc = "idle" /\ tagPc = "idle"
    /\ libraryBooks = EmptyMap /\ allTags = <<>>

\* Two Maps hold the same values under the same keys.
SameMap(m1, m2) ==
    /\ MapKeys(m1) = MapKeys(m2)
    /\ \A k \in MapKeys(m1) : MapGet(m1, k) = MapGet(m2, k)

\* C10: once the save effect has run, the library key holds the
\* serialization of the whole Map, and deserializing it gives the Map back.
C10_StoredIsWholeMap ==
    pc = "idle" =>
        /\ localStorage.library.kind = "json"
        /\ Len(localStorage.library.json) = Len(libraryBooks)
        /\ \A i \in 1..Len(libraryBooks) :
              /\ localStorage.library.json[i].key = libraryBooks[i].key
              /\ localStorage.library.json[i].value.status.status
                    = libraryBooks[i].value.status.status
        /\ SameMap(Deserialize(localStorage.library.json), libraryBooks)

\* C10 witness: two books are held, one with a changed status, and the save
\* effect has run.
C10_Witness ==
    /\ pc = "idle"
    /\ Len(libraryBooks) = 2
    /\ \E i \in 1..2 : IsSome(libraryBooks[i].value.status.dateCompleted)

\* C11: no status change, progress save or re-read operation modifies the
\* ReadingStatus it was given: once the handler has returned, that object
\* holds what it held before, its session list and re-read list included.
C11_PreviousStatusIntact ==
    (pc = "effect" /\ lastOp.op \in StatusOps) => lastOp.after = lastOp.prev

\* The re-read list of a ReadingStatus.
ReReadsOf(status) == OrEmpty(status.reReadDates)

\* C12: "Add Re-read" without a completion date changes nothing; with a
\* completion date D and a rating R (or none) it hands on the previous list
\* with exactly one entry appended, carrying D and R, and the status
\* re-read, whatever the status was; the library then holds one entry more.
C12_AddReRead ==
    /\ (lastOp.op = "addReRead" /\ lastOp.arg = "rejected") =>
          /\ ~IsSome(Val(lastOp.form).selectedDate)
          /\ lastOp.handed = None
          /\ pc = "handled"
          /\ PrevStatus(lastOp.id) = lastOp.prev
    /\ (lastOp.op = "addReRead" /\ lastOp.arg = "added") =>
          LET before == ReReadsOf(Val(lastOp.prev))
              handed == Val(lastOp.handed)
              added == ReReadsOf(handed)[Len(before) + 1]
              stored == ReReadsOf(StatusOf(lastOp.id))
          IN  /\ IsSome(Val(lastOp.form).selectedDate)
              /\ Len(ReReadsOf(handed)) = Len(before) + 1
              /\ SubSeq(ReReadsOf(handed), 1, Len(before)) = before
              /\ added.dateCompleted = Val(lastOp.form).selectedDate
              /\ added.rating = Prop(Val(lastOp.form).newEntry, "rating")
              /\ handed.status = "re-read"
              /\ [handed EXCEPT !.status = "", !.reReadDates = None]
                    = [Val(lastOp.prev) EXCEPT !.status = "", !.reReadDates = None]
              /\ StatusOf(lastOp.id).status = "re-read"
              /\ Len(stored) = Len(before) + 1
              /\ \E i \in 1..Len(stored) : stored[i] = added

\* C12 witness: a rated re-read has been added to a finished book that
\* already had one.
C12_Witness ==
    /\ pc = "effect" /\ lastOp.op = "addReRead" /\ lastOp.arg = "added"
    /\ Val(lastOp.prev).status = "finished"
    /\ Len(ReReadsOf(Val(lastOp.prev))) = 1
    /\ IsSome(Prop(Val(lastOp.form).newEntry, "rating"))

\* C13: deleting one entry from a re-read list of two or more removes
\* exactly the entry with the given identifier, keeps the others in their
\* order, and leaves the status re-read.
C13_DeleteOneOfSeveral ==
    (pc = "effect" /\ lastOp.op = "deleteEntry" /\ lastOp.arg = "several") =>
        LET before == ReReadsOf(Val(lastOp.prev))
            handed == Val(lastOp.handed)
            entryId == Val(lastOp.form).entryId
            KeepsOthers(after) ==
                /\ Len(after) = Len(before) - 1
                /\ \A i \in 1..Len(after) : after[i].id # entryId
                /\ \E gone \in 1..Len(before) :
                      /\ before[gone].id = entryId
                      /\ \A i \in 1..Len(after) :
                            after[i] = before[IF i < gone THEN i ELSE i + 1]
        IN  /\ KeepsOthers(ReReadsOf(handed))
            /\ KeepsOthers(ReReadsOf(StatusOf(lastOp.id)))
            /\ handed.status = "re-read"
            /\ StatusOf(lastOp.id).status = "re-read"

\* C14: a progress save to page P with M > 0 minutes hands on the previous
\* sessions with exactly one session appended (minutes M, pagesRead P minus
\* the previous currentPage, 0 when unset); with M = 0 the session list is
\* the previous one; lastUpdated is the save time either way, and the
\* status is the previous one when P is below the page count.
C14_ProgressSession ==
    Acted("progressSave") =>
        LET previous == Val(lastOp.prev)
            handed == Val(lastOp.handed)
            P == Val(lastOp.form).currentPage
            M == Val(lastOp.form).minutesRead
            pageCount == Val(MapGet(libraryBooks, lastOp.id)).book.pageCount
        IN  /\ StatusOf(lastOp.id) = handed
            /\ M > 0 =>
                  handed.readingSessions =
                      Some(Append(OrEmpty(previous.readingSessions),
                                  [date |-> clock, minutes |-> M,
                                   pagesRead |-> P - OrZero(previous.currentPage)]))
            /\ M = 0 => handed.readingSessions = previous.readingSessions
            /\ handed.lastUpdated = Some(clock)
            /\ handed.currentPage = Some(P)
            /\ (IsSome(pageCount) /\ P < Val(pageCount)) =>
                  handed.status = previous.status

\* C14 witness: minutes were logged on a book that already had a session,
\* on a page below the page count and below the page it was on.
C14_Witness ==
    /\ Acted("progressSave")
    /\ Val(lastOp.form).minutesRead > 0
    /\ Len(OrEmpty(Val(lastOp.prev).readingSessions)) = 1
    /\ Val(lastOp.form).currentPage < Val(PageCountOf(lastOp.id))
    /\ Val(lastOp.form).currentPage < OrZero(Val(lastOp.prev).currentPage)

\* The elements of a sequence.
SeqSet(q) == {q[i] : i \in 1..Len(q)}

\* The books MyLibrary displays.
Displayed == SeqSet(filteredBooks(libraryBooks, activeTab, selectedTag))

\* The books of the library whose status is the active tab's (all of them
\* on the All tab).
TabSet ==
    {b \in SeqSet(MapValues(libraryBooks)) :
        activeTab = "all" \/ b.status.status = activeTab}

\* The tags of a book.
TagSet(b) == IF IsSome(b.status.tags) THEN SeqSet(Val(b.status.tags)) ELSE {}

\* C15: while a tag is selected, the displayed books are exactly the
\* active tab's books that carry it; a click on the button of the selected
\* tag leaves no tag selected and the whole tab displayed, a click on
\* another button selects its tag; and a click changes neither the library
\* nor the storage.
C15_TagFilterToggle ==
    /\ IsSome(selectedTag) =>
          Displayed = {b \in TabSet : Val(selectedTag) \in TagSet(b)}
    /\ IsSome(lastClick) =>
          /\ Val(lastClick).selected = Some(Val(lastClick).tag) =>
                (selectedTag = None /\ Displayed = TabSet)
          /\ Val(lastClick).selected # Some(Val(lastClick).tag) =>
                selectedTag = Some(Val(lastClick).tag)
          /\ libraryBooks = Val(lastClick).library
          /\ localStorage = Val(lastClick).stored

\* C15 witness: the selected tag's button was clicked on a tab where the
\* filter had hidden a book and shown another.
C15_Witness ==
    /\ IsSome(lastClick)
    /\ Val(lastClick).selected = Some(Val(lastClick).tag)
    /\ \E b \in TabSet : Val(lastClick).tag \in TagSet(b)
    /\ \E b \in TabSet : Val(lastClick).tag \notin TagSet(b)

\* The days a heatmap can show: those of the visit and the day after.
Days == 0..(MaxDay + 1)

\* The sessions of the library on day d, as (book, session) positions.
SessionsOn(d) ==
    {<<i, j>> \in (1..Len(libraryBooks)) \X (1..MaxSessions) :
        /\ j <= Len(OrEmpty(libraryBooks[i].value.status.readingSessions))
        /\ DayOf(Val(libraryBooks[i].value.status.readingSessions)[j].date) = d}

\* The books completed on day d, and those with a re-read completed on it.
CompletedOn(d) ==
    {i \in 1..Len(libraryBooks) :
        /\ IsSome(libraryBooks[i].value.status.dateCompleted)
        /\ DayOf(Val(libraryBooks[i].value.status.dateCompleted)) = d}

ReReadOn(d) ==
    {i \in 1..Len(libraryBooks) :
        \E j \in 1..Len(ReReadsOf(libraryBooks[i].value.status)) :
            LET reRead == ReReadsOf(libraryBooks[i].value.status)[j]
            IN  IsSome(reRead.dateCompleted) /\ DayOf(Val(reRead.dateCompleted)) = d}

\* The levels day d is given: one per session, 3 for a completion, 4 for a
\* re-read.
LevelsOn(d) ==
    {Min(4, Val(libraryBooks[p[1]].value.status.readingSessions)[p[2]].minutes \div 15) :
        p \in SessionsOn(d)}
    \cup (IF CompletedOn(d) # {} THEN {3} ELSE {})
    \cup (IF ReReadOn(d) # {} THEN {4} ELSE {})

\* C16: every day with activity has an entry in the heatmap, and no other
\* day has; the entry's intensity is the highest level of the day, its
\* session count the number of sessions of all books on the day, and its
\* book list the titles active on the day, each once.
C16_HeatmapDay ==
    IsSome(heatmapView) =>
        \A d \in Days :
            LET entry == MapGet(Val(heatmapView).data, d)
                titles == {libraryBooks[i].value.book.title :
                             i \in {p[1] : p \in SessionsOn(d)}
                                   \cup CompletedOn(d) \cup ReReadOn(d)}
            IN  /\ IsSome(entry) <=> LevelsOn(d) # {}
                /\ IsSome(entry) =>
                      /\ Val(entry).intensity \in LevelsOn(d)
                      /\ \A level \in LevelsOn(d) : level <= Val(entry).intensity
                      /\ Val(entry).sessions = Cardinality(SessionsOn(d))
                      /\ SeqSet(Val(entry).books) = titles
                      /\ Len(Val(entry).books) = Cardinality(titles)

\* C16 witness: a day with two sessions of two books, of 10 and 20 minutes,
\* and nothing else, has been rendered.
C16_Witness ==
    /\ IsSome(heatmapView)
    /\ \E d \in Days :
          /\ Cardinality(SessionsOn(d)) = 2
          /\ Cardinality({p[1] : p \in SessionsOn(d)}) = 2
          /\ LevelsOn(d) = {0, 1}
          /\ Val(MapGet(Val(heatmapView).data, d)).intensity = 1

\* C17: the current streak is the number of consecutive days, from today
\* backward, that each have activity: those days have, and the day before
\* them has none.
C17_CurrentStreak ==
    IsSome(heatmapView) =>
        LET today == Val(heatmapView).today
            streak == Val(heatmapView).streak
        IN  /\ \A k \in 0..(streak - 1) : LevelsOn(today - k) # {}
            /\ LevelsOn(today - streak) = {}

\* The last call of searchBooks had an empty or whitespace-only query.
BlankSearch == IsSome(lastSearch) /\ Val(lastSearch).searchQuery \in {"", " "}

OneRequestInFlight ==
    /\ Cardinality(inflight) <= 1
    /\ isLoading <=> inflight # {}

C20_ReReadIdsDistinct ==
    \A k \in 1..Len(libraryBooks) :
        LET entries == ReReadsOf(libraryBooks[k].value.status)
        IN  \A i, j \in 1..Len(entries) : entries[i].id = entries[j].id => i = j

\* C21: a progress save that reaches the last page of a book already in a
\* completed state leaves its lifecycle status and its dateCompleted as
\* they were.
C21_CompletedKept ==
    (/\ Acted("progressSave") /\ lastOp.arg = "end"
     /\ Val(lastOp.prev).status \in CompletedStates) =>
        /\ StatusOf(lastOp.id).status = Val(lastOp.prev).status
        /\ StatusOf(lastOp.id).dateCompleted = Val(lastOp.prev).dateCompleted

CarriedFields ==
    {"currentPage", "personalRating", "notes", "readingGoal", "readingSessions",
     "lastUpdated", "tags", "reReadDates"}

\* C23: a status change to any target leaves currentPage, personalRating,
\* notes, readingGoal, the sessions, lastUpdated, the tags and the re-read
\* list as they were, and a change into reading leaves dateCompleted as it
\* was.
C23_StatusChangeCarries ==
    Acted("statusChange") =>
        /\ \A f \in CarriedFields :
              /\ Val(lastOp.handed)[f] = Val(lastOp.prev)[f]
              /\ StatusOf(lastOp.id)[f] = Val(lastOp.prev)[f]
        /\ lastOp.arg = "reading" =>
              StatusOf(lastOp.id).dateCompleted = Val(lastOp.prev).dateCompleted

\* C23 witness: a completed entry with every carried field set has been
\* changed into reading.
C23_Witness ==
    /\ Acted("statusChange") /\ lastOp.arg = "reading"
    /\ Val(lastOp.prev).status = "finished"
    /\ IsSome(Val(lastOp.prev).dateCompleted)
    /\ \A f \in CarriedFields : IsSome(Val(lastOp.prev)[f])

\* C24: every library entry's lifecycle status is one of reading, finished,
\* did-not-finish and re-read.
C24_StatusInRevision ==
    \A i \in 1..Len(libraryBooks) : libraryBooks[i].value.status.status \in StatusValues

\* The status tabs of MyLibrary (every tab but All).
StatusTabs == Tabs \ {"all"}

\* C25: the four per-status counts of the statistics add up to totalBooks,
\* and every library entry is listed under exactly one status tab.
C25_CountsPartition ==
    /\ stats(libraryBooks).currentlyReading + stats(libraryBooks).readBooks
         + stats(libraryBooks).didNotFinish + stats(libraryBooks).reRead
       = stats(libraryBooks).totalBooks
    /\ \A i \in 1..Len(libraryBooks) :
          Cardinality({tab \in StatusTabs :
                          Includes(TabBooks(libraryBooks, tab), libraryBooks[i].value)}) = 1

\* C26: every entry in the reading state has dateStarted set, and every
\* entry in a completed state has dateStarted and dateCompleted set.
C26_DatesSet ==
    \A i \in 1..Len(libraryBooks) :
        LET status == libraryBooks[i].value.status
        IN  /\ status.status = "reading" => IsSome(status.dateStarted)
            /\ status.status \in CompletedStates =>
                  IsSome(status.dateStarted) /\ IsSome(status.dateCompleted)

\* The library the visit found stored, once the load effect has read it:
\* the update it queued, then the map in memory (no handler of the library
\* view changes it).
LoadedLibrary == IF IsSome(queued) THEN Val(queued) ELSE libraryBooks

\* C27: a valid non-empty library found at start stays in the storage,
\* with every one of its entries, at every point during and after the
\* mount of Index.
C27_StoredLibraryKept ==
    pc # "mount" =>
        /\ localStorage.library.kind = "json"
        /\ \A i \in 1..Len(LoadedLibrary) :
              Includes(Deserialize(localStorage.library.json), LoadedLibrary[i])

\* The library as it was before the handler of lastOp ran.
LibraryBefore ==
    MapSet(libraryBooks, lastOp.id,
           [Val(MapGet(libraryBooks, lastOp.id)) EXCEPT !.status = Val(lastOp.prev)])

\* 1 for a finished status, 0 for any other.
Finished(status) == IF status.status = "finished" THEN 1 ELSE 0

\* C28 as claimed: no status change, progress save or re-read add, edit or
\* delete on an existing entry lowers readBooks or totalPages.
C28_NeverDecrease ==
    (pc = "effect" /\ lastOp.op \in StatusOps) =>
        /\ stats(libraryBooks).readBooks >= stats(LibraryBefore).readBooks
        /\ stats(libraryBooks).totalPages >= stats(LibraryBefore).totalPages

\* C28 amended: readBooks and totalPages follow the entries whose status
\* is finished: such an operation raises them by one book and its page
\* count when the entry enters finished, lowers them by as much when it
\* leaves finished, and leaves them as they were otherwise.
C28_FollowsFinished ==
    (pc = "effect" /\ lastOp.op \in StatusOps) =>
        LET entered == Finished(StatusOf(lastOp.id)) - Finished(Val(lastOp.prev))
            pages == OrZero(Val(MapGet(libraryBooks, lastOp.id)).book.pageCount)
        IN  /\ stats(libraryBooks).readBooks
                 = stats(LibraryBefore).readBooks + entered
            /\ stats(libraryBooks).totalPages
                 = stats(LibraryBefore).totalPages + entered * pages

\* C28 witness: a re-read has been added to a finished book, which lowers
\* readBooks from 1 to 0.
C28_Witness ==
    /\ Acted("addReRead") /\ lastOp.arg = "added"
    /\ Val(lastOp.prev).status = "finished"
    /\ stats(LibraryBefore).readBooks = 1
    /\ stats(libraryBooks).readBooks = 0
    /\ stats(LibraryBefore).totalPages > stats(libraryBooks).totalPages

C30_SelectedTagCarried ==
    IsSome(selectedTag) => Val(selectedTag) \in LibraryTags(libraryBooks)

====
